---- MODULE Spec2Model ----
(***************************************************************************)
(* ArtFlow backend (src/main.py, src/schemas.py): the like-increment       *)
(* read-modify-write on the "post" collection, order creation with its     *)
(* server-computed subtotal, and the artwork list (search filter and       *)
(* showcase projection).                                                   *)
(***************************************************************************)
EXTENDS Integers, Sequences, FiniteSets, TLC

\* ------------------------------------------------------------------ bounds

\* concurrent clients issuing like requests
NumClients == 2
\* like requests issued in one behaviour
MaxRequests == 3
\* largest likes value a post is created with
MaxInitLikes == 1

\* lines of one order payload
MaxLines == 2

\* artworks in the collection
MaxArtworks == 2
\* image URLs of one artwork
MaxImages == 4
\* characters of the search string q
MaxQueryLen == 2

\* ------------------------------------------------------- documents, ids

\* Python's None (a record, so that it compares with documents)
None == [none |-> TRUE]

\* dict.get(key, default) on a stored document
Get(d, key, default) == IF key \in DOMAIN d THEN d[key] ELSE default

\* bson.ObjectId takes a string of 24 hex digits; the model keeps the rule
\* (exact length, hex digits only, either case) with ids of one digit.
OidHexLen == 1

HexDigits == {"a", "A", "b"}

HexVal(c) == CASE c = "a" -> 10
               [] c = "A" -> 10
               [] c = "b" -> 11
               [] OTHER -> -1

HexChar(v) == CASE v = 10 -> "a"
                [] v = 11 -> "b"
                [] v = 12 -> "c"
                [] v = 13 -> "d"
                [] v = 14 -> "e"
                [] v = 15 -> "f"
                [] OTHER -> "?"

\* ObjectId(s) raises (bson.errors.InvalidId) unless s is well formed
WellFormed(s) == Len(s) = OidHexLen /\ \A i \in 1..Len(s) : s[i] \in HexDigits

\* ObjectId(s): the key the string denotes (case of the digits is lost)
ObjectId(s) == [i \in 1..Len(s) |-> HexVal(s[i])]

\* str(oid): the lower-case hex form
OidStr(oid) == [i \in 1..Len(oid) |-> HexChar(oid[i])]

\* the post_id strings clients send: empty, lower case, upper case, another
\* key, a non-hex digit, too long
ReqIds == {<<>>, <<"a">>, <<"A">>, <<"b">>, <<"g">>, <<"a", "b">>}

Oids == {ObjectId(s) : s \in {t \in ReqIds : WellFormed(t)}}

Clients == 1..NumClients

NoResp == [status |-> 0]

HTTPException(code, msg) == [status |-> code, detail |-> msg]

\* ------------------------------------------------------------------ state

VARIABLES
    db,        \* database.db: None or the connected database
    post,      \* the "post" collection: ObjectId -> document
    postResp,  \* response of the last POST /posts
    pc,        \* per like request in flight: "idle" | "read" | "write"
    req,       \* payload.post_id of the client's current/last like request
    doc,       \* the document find_one returned to the client
    resp,      \* response of the client's last like request
    issued,    \* like requests issued so far
    initLikes, \* history: likes each post was created with
    liked,     \* history: like requests completed successfully per post
    orders,    \* the "order" collection, in insertion order
    ordersBefore, \* history: the collection when the last POST /orders came in
    orderReq,  \* payload of the last POST /orders
    orderResp, \* response of the last POST /orders
    artwork,   \* the "artwork" collection, in store order
    artReq,    \* query parameters of the last GET /artworks
    artFound,  \* history: the documents get_documents returned for it
    artResp    \* response of the last GET /artworks

likeVars == <<db, post, postResp, pc, req, doc, resp, issued, initLikes, liked>>
orderVars == <<orders, ordersBefore, orderReq, orderResp>>
artVars == <<artwork, artReq, artFound, artResp>>
vars == <<likeVars, orderVars, artVars>>

\* ------------------------------------------------------- POST /posts

\* schemas.Post as stored by create_document (likes: int = Field(0, ge=0)).
\* database.create_document and database.get_documents raise when db is
\* None, which the handlers turn into a 500.
PostDoc(author, likes) == [author_name |-> author, likes |-> likes]

create_post(likes) ==
    /\ IF db = None
       THEN /\ postResp' = HTTPException(500, "Database not available")
            /\ UNCHANGED <<post, initLikes, liked>>
       ELSE \E oid \in Oids \ DOMAIN post :
            /\ post' = [o \in DOMAIN post \cup {oid} |->
                          IF o = oid THEN PostDoc("ann", likes) ELSE post[o]]
            /\ initLikes' = [o \in DOMAIN post \cup {oid} |->
                          IF o = oid THEN likes ELSE initLikes[o]]
            /\ liked' = [o \in DOMAIN post \cup {oid} |->
                          IF o = oid THEN 0 ELSE liked[o]]
            /\ postResp' = [status |-> 200, id |-> OidStr(oid),
                            message |-> "Post created"]
    /\ UNCHANGED <<db, pc, req, doc, resp, issued, orderVars, artVars>>

\* ------------------------------------------------------- POST /posts/like

\* db["post"].find_one({"_id": oid})
find_one(coll, oid) == IF oid \in DOMAIN coll THEN coll[oid] ELSE None

\* likes = int(doc.get("likes", 0)) + 1 (likes is stored as an int, which
\* int() returns unchanged)
\* faulty variant: one like counts twice
NewLikesPlusTwo(d) == Get(d, "likes", 0) + 2
NewLikes(d) == Get(d, "likes", 0) + 1

\* db["post"].update_one({"_id": oid}, {"$set": {"likes": likes}})
\* faulty variant: an atomic $inc instead of the $set
UpdateOneInc(coll, oid, likes) ==
    IF oid \in DOMAIN coll
    THEN [coll EXCEPT ![oid] = [k \in DOMAIN @ \cup {"likes"} |->
                                  IF k = "likes" THEN Get(@, "likes", 0) + 1
                                  ELSE @[k]]]
    ELSE coll
\* faulty variant: the write is lost
UpdateOneDropped(coll, oid, likes) == coll
update_one(coll, oid, likes) ==
    IF oid \in DOMAIN coll
    THEN [coll EXCEPT ![oid] = [k \in DOMAIN @ \cup {"likes"} |->
                                  IF k = "likes" THEN likes ELSE @[k]]]
    ELSE coll

\* lines 225-232: the db check, then the id is parsed
LikeStart(p, s) ==
    /\ pc[p] = "idle"
    /\ issued < MaxRequests
    /\ issued' = issued + 1
    /\ req' = [req EXCEPT ![p] = s]
    /\ doc' = [doc EXCEPT ![p] = None]
    /\ IF db = None
       THEN /\ resp' = [resp EXCEPT ![p] =
                           HTTPException(500, "Database not available")]
            /\ pc' = pc
       ELSE IF ~WellFormed(s)
       THEN /\ resp' = [resp EXCEPT ![p] = HTTPException(400, "Invalid post id")]
            /\ pc' = pc
       ELSE /\ resp' = [resp EXCEPT ![p] = NoResp]
            /\ pc' = [pc EXCEPT ![p] = "read"]
    /\ UNCHANGED <<db, post, postResp, initLikes, liked, orderVars, artVars>>

\* lines 233-235: find_one, 404 when there is no document
\* faulty variant: no 404, a missing document reads as likes 0
LikeReadNoCheck(p) ==
    /\ pc[p] = "read"
    /\ doc' = [doc EXCEPT ![p] =
                 IF find_one(post, ObjectId(req[p])) = None
                 THEN [likes |-> 0] ELSE find_one(post, ObjectId(req[p]))]
    /\ pc' = [pc EXCEPT ![p] = "write"]
    /\ UNCHANGED <<db, post, postResp, req, resp, issued, initLikes, liked,
                   orderVars, artVars>>
LikeRead(p) ==
    /\ pc[p] = "read"
    /\ LET d == find_one(post, ObjectId(req[p])) IN
       IF d = None
       THEN /\ resp' = [resp EXCEPT ![p] = HTTPException(404, "Post not found")]
            /\ pc' = [pc EXCEPT ![p] = "idle"]
            /\ doc' = doc
       ELSE /\ doc' = [doc EXCEPT ![p] = d]
            /\ pc' = [pc EXCEPT ![p] = "write"]
            /\ resp' = resp
    /\ UNCHANGED <<db, post, postResp, req, issued, initLikes, liked,
                   orderVars, artVars>>

\* lines 236-238: likes computed from the document read, written, returned
LikeWrite(p) ==
    /\ pc[p] = "write"
    /\ LET oid == ObjectId(req[p])
           likes == NewLikes(doc[p]) IN
       /\ post' = update_one(post, oid, likes)
       /\ resp' = [resp EXCEPT ![p] =
                     [status |-> 200, id |-> req[p], likes |-> likes]]
       /\ liked' = IF oid \in DOMAIN liked
                   THEN [liked EXCEPT ![oid] = @ + 1] ELSE liked
    /\ pc' = [pc EXCEPT ![p] = "idle"]
    /\ UNCHANGED <<db, postResp, req, doc, issued, initLikes, orderVars, artVars>>

\* ------------------------------------------------------- POST /orders

\* Amounts are binary fractions, which Python floats hold exactly: a price
\* p stands for p/8, a JSON quantity q for q/2 (so 3 is 1.5); a subtotal
\* after round(_, 2) is a whole number of hundredths.
ItemIds == {"a", "b"}
Quantities == {0, 3, 4}
Prices == {-8, 1, 3}

Restrict(f, S) == [k \in S |-> f[k]]

\* the dicts of payload.items: any of the keys may be missing
Lines ==
    {Restrict(l, F) :
        l \in [item_id : ItemIds, quantity : Quantities, price : Prices],
        F \in SUBSET {"item_id", "quantity", "price"}}

SeqsUpTo(S, n) == UNION {[1..k -> S] : k \in 0..n}

\* OrderPayload (buyer fields fixed: they pass through unchanged)
OrderPayloads ==
    [buyer_name : {"bob"}, buyer_email : {"bob@example.com"},
     shipping_address : {"1 Main St"},
     items : SeqsUpTo(Lines, MaxLines),
     currency : {[none |-> TRUE], [code |-> "EUR"]}]

\* int(x): truncation toward zero of the quantity x/2
PyInt(x) == IF x >= 0 THEN x \div 2 ELSE -((-x) \div 2)

\* qty = int(it.get("quantity", 1))
Qty(it) == PyInt(Get(it, "quantity", 2))

\* price = float(it.get("price", 0)), in eighths
Price(it) == Get(it, "price", 0)

\* qty * price, in eighths
\* faulty variant: the quantity is ignored
LineAmountNoQty(it) == Price(it)
LineAmount(it) == Qty(it) * Price(it)

\* for it in payload.items: subtotal += qty * price
RECURSIVE Accumulate(_, _)
Accumulate(items, n) ==
    IF n = 0 THEN 0 ELSE Accumulate(items, n - 1) + LineAmount(items[n])

\* round(subtotal, 2): eighths to hundredths, exact ties to the even digit
PyRound2(e) ==
    LET twice == 25 * e
        lo == (twice - 1) \div 2
    IN IF twice % 2 = 0 THEN twice \div 2
       ELSE IF lo % 2 = 0 THEN lo ELSE lo + 1

\* {"item_id": i.get("item_id"), "quantity": int(i.get("quantity", 1))}
OrderLine(i) ==
    [k \in (DOMAIN i \cap {"item_id"}) \cup {"quantity"} |->
        IF k = "quantity" THEN Qty(i) ELSE i[k]]

\* schemas.OrderItem: item_id a str (None when the key was missing),
\* quantity ge=1
\* faulty variant: quantity is not checked
OrderItemValidClamped(l) == "item_id" \in DOMAIN l
OrderItemValid(l) == "item_id" \in DOMAIN l /\ l.quantity >= 1

\* schemas.Order: every item an OrderItem, subtotal ge=0
OrderValid(o) ==
    /\ \A i \in 1..Len(o.items) : OrderItemValid(o.items[i])
    /\ o.subtotal >= 0

\* Order(...) as built at lines 173-180, before validation
BuildOrder(payload) ==
    [buyer_name |-> payload.buyer_name,
     buyer_email |-> payload.buyer_email,
     shipping_address |-> payload.shipping_address,
     items |-> [i \in 1..Len(payload.items) |-> OrderLine(payload.items[i])],
     subtotal |-> PyRound2(Accumulate(payload.items, Len(payload.items))),
     currency |-> IF "code" \in DOMAIN payload.currency
                  THEN payload.currency.code ELSE "USD",
     status |-> "pending"]

\* database.create_document: the record gets a fresh _id and is appended
create_document(coll, record, oid) ==
    Append(coll, [k \in DOMAIN record \cup {"_id"} |->
                     IF k = "_id" THEN oid ELSE record[k]])

StoredIds(coll) == {coll[i]._id : i \in 1..Len(coll)}

create_order(payload) ==
    /\ orderReq = None
    /\ orderReq' = payload
    /\ ordersBefore' = orders
    /\ LET order == BuildOrder(payload) IN
       IF ~OrderValid(order)
       THEN /\ orderResp' = HTTPException(500, "validation error")
            /\ orders' = orders
       ELSE IF db = None
       THEN /\ orderResp' = HTTPException(500, "Database not available")
            /\ orders' = orders
       ELSE \E oid \in Oids \ StoredIds(orders) :
            /\ orders' = create_document(orders, order, oid)
            /\ orderResp' = [status |-> 200, id |-> OidStr(oid),
                             message |-> "Order placed",
                             subtotal |-> order.subtotal]
    /\ UNCHANGED <<likeVars, artVars>>

\* an order already in the collection: the one POST /orders stores for
\* items [{"item_id": "a", "quantity": 2, "price": 0.375}]
EarlierOrder ==
    BuildOrder([buyer_name |-> "eve", buyer_email |-> "eve@example.com",
                shipping_address |-> "2 Side St",
                items |-> <<[item_id |-> "a", quantity |-> 4, price |-> 3]>>,
                currency |-> [none |-> TRUE]])

\* ------------------------------------------------------- GET /artworks

\* Python values of an artwork document, tagged by type so that a field may
\* hold None or a value; text is a sequence of characters
Str(s) == [str |-> s]
Num(n) == [num |-> n]
Bool(b) == [bool |-> b]
List(xs) == [list |-> xs]

\* str.lower() on the characters of the model
Lower(c) == CASE c = "O" -> "o"
              [] c = "I" -> "i"
              [] OTHER -> c

\* one character of a $regex pattern against one character of the text,
\* option "i": "." matches any character, a letter matches in either case
RegexCharFound(pc_, c) == pc_ = "." \/ Lower(pc_) = Lower(c)

\* {"$regex": q, "$options": "i"}: the pattern is found somewhere in text
RegexFound(q, text) ==
    \E off \in 0..(Len(text) - Len(q)) :
        \A j \in 1..Len(q) : RegexCharFound(q[j], text[off + j])

\* one {field: {"$regex": q, "$options": "i"}} clause on a document: only a
\* string field can match
ClauseMatches(d, clause) ==
    /\ clause.field \in DOMAIN d
    /\ "str" \in DOMAIN d[clause.field]
    /\ RegexFound(clause.regex, d[clause.field].str)

\* a filter: {} matches every document, {"$or": [...]} needs one clause
FilterMatches(d, filter_dict) ==
    IF "or" \in DOMAIN filter_dict
    THEN \E i \in 1..Len(filter_dict.or) : ClauseMatches(d, filter_dict.or[i])
    ELSE TRUE

\* lines 69-76: filter_dict from q ("if q:" is false for None and for "")
SearchFields == <<"title", "description", "medium">>

BuildFilter(q) ==
    IF q = None \/ q = Str(<<>>) THEN <<>>
    ELSE [or |-> [i \in 1..Len(SearchFields) |->
                    [field |-> SearchFields[i], regex |-> q.str,
                     options |-> "i"]]]

Min(a, b) == IF a <= b THEN a ELSE b

\* xs[:n]
Take(xs, n) == SubSeq(xs, 1, Min(n, Len(xs)))

RECURSIVE Select(_, _, _)
Select(coll, filter_dict, n) ==
    IF n = 0 THEN <<>>
    ELSE IF FilterMatches(coll[n], filter_dict)
         THEN Append(Select(coll, filter_dict, n - 1), coll[n])
         ELSE Select(coll, filter_dict, n - 1)

\* database.get_documents: the matching documents in store order, at most
\* limit of them
get_documents(coll, filter_dict, limit) ==
    Take(Select(coll, filter_dict, Len(coll)), limit)

\* d.get("images", [])[:3]
\* faulty variant: one image too many
ShowcaseImagesFour(d) == List(Take(Get(d, "images", List(<<>>)).list, 4))
ShowcaseImages(d) == List(Take(Get(d, "images", List(<<>>)).list, 3))

\* lines 80-90: the showcase card of one document
Showcase(d) ==
    [id |-> Str(OidStr(d._id)),
     title |-> Get(d, "title", None),
     artist_id |-> Get(d, "artist_id", None),
     images |-> ShowcaseImages(d),
     price |-> Get(d, "price", None),
     currency |-> Get(d, "currency", Str("USD")),
     is_available |-> Get(d, "is_available", Bool(TRUE)),
     medium |-> Get(d, "medium", None),
     year |-> Get(d, "year", None)]

list_artworks(q, limit) ==
    /\ artReq' = [q |-> q, limit |-> limit]
    /\ IF db = None
       THEN /\ artFound' = <<>>
            /\ artResp' = HTTPException(500, "Database not available")
       ELSE LET docs == get_documents(artwork, BuildFilter(q), limit) IN
            /\ artFound' = docs
            /\ artResp' = [status |-> 200,
                           items |-> [i \in 1..Len(docs) |-> Showcase(docs[i])]]
    /\ UNCHANGED <<artwork, likeVars, orderVars>>

\* the query parameters: q missing, empty, or up to MaxQueryLen characters;
\* limit 1 or the default 20
QueryChars == {"o", "I", "."}
Queries == {None} \cup {Str(t) : t \in SeqsUpTo(QueryChars, MaxQueryLen)}
Limits == {1, 20}

\* the image URLs of an artwork with n images
ImageUrls(n) == [j \in 1..n |-> <<"img", j>>]

\* an artwork as POST /artworks stores it: every field of schemas.Artwork
FullArtwork(title, description, medium, n) ==
    [title |-> Str(title), artist_id |-> Str("u1"),
     description |-> description, medium |-> medium,
     dimensions |-> Str("24x36 in"), year |-> Num(2020),
     price |-> Num(100), currency |-> Str("EUR"),
     images |-> List(ImageUrls(n)), is_available |-> Bool(FALSE),
     location |-> Str("Lisbon")]

\* the documents of the collection: full records that differ in their text
\* fields, full records that differ in their number of images, and a record
\* another writer left with the title only
ArtDocs ==
    {FullArtwork(t, d, m, 2) :
        t \in {<<"O", "i">>, <<"w">>},
        d \in {None, Str(<<"i", "o">>)},
        m \in {None, Str(<<"w", ".">>)}}
    \cup {FullArtwork(<<"O", "i">>, None, None, n) : n \in 0..MaxImages}
    \cup {[title |-> Str(<<"w">>)]}

\* the store gives each document its _id
WithIds(coll) ==
    [i \in 1..Len(coll) |->
        [k \in DOMAIN coll[i] \cup {"_id"} |->
            IF k = "_id" THEN <<9 + i>> ELSE coll[i][k]]]

InitLike ==
    /\ db \in {None, [name |-> "artflow"]}
    /\ post = <<>>
    /\ postResp = NoResp
    /\ pc = [p \in Clients |-> "idle"]
    /\ req = [p \in Clients |-> <<>>]
    /\ doc = [p \in Clients |-> None]
    /\ resp = [p \in Clients |-> NoResp]
    /\ issued = 0
    /\ initLikes = <<>>
    /\ liked = <<>>

InitOrder ==
    /\ orders = <<>>
    /\ ordersBefore = <<>>
    /\ orderReq = None
    /\ orderResp = NoResp

InitArt ==
    /\ artwork = <<>>
    /\ artReq = None
    /\ artFound = <<>>
    /\ artResp = NoResp

Init == InitLike /\ InitOrder /\ InitArt

NextLike ==
    \/ \E n \in 0..MaxInitLikes : create_post(n)
    \/ \E p \in Clients, s \in ReqIds : LikeStart(p, s)
    \/ \E p \in Clients : LikeRead(p)
    \/ \E p \in Clients : LikeWrite(p)

\* the community endpoints: POST /posts and POST /posts/like
Spec == Init /\ [][NextLike]_vars

\* POST /orders against an empty collection or one holding an earlier order
InitOrders ==
    /\ InitLike /\ InitArt
    /\ orders \in {<<>>, create_document(<<>>, EarlierOrder, <<10>>)}
    /\ ordersBefore = orders
    /\ orderReq = None
    /\ orderResp = NoResp

NextOrder == orderReq = None /\ \E payload \in OrderPayloads : create_order(payload)

SpecOrder == InitOrders /\ [][NextOrder]_vars

\* GET /artworks against the collections of up to MaxArtworks documents
InitArtworks ==
    /\ InitLike /\ InitOrder
    /\ artwork \in {WithIds(c) : c \in SeqsUpTo(ArtDocs, MaxArtworks)}
    /\ artReq = None
    /\ artFound = <<>>
    /\ artResp = NoResp

NextArt ==
    artReq = None /\ \E q \in Queries, limit \in Limits : list_artworks(q, limit)

SpecArt == InitArtworks /\ [][NextArt]_vars

\* ------------------------------------------------------- like: properties

\* the key of the client's current/last like request
OidOf(p) == ObjectId(req[p])

\* a successful like response
LikeOk(p, n) == [status |-> 200, id |-> req[p], likes |-> n]

\* C1: a like whose write finds the stored likes still at the value N it
\* read leaves the stored likes at N+1 and returns likes = N+1 with the
\* post id exactly as it was given.
C1_LikeIncrements ==
    [][\A p \in Clients :
         (/\ pc[p] = "write" /\ pc'[p] = "idle"
          /\ OidOf(p) \in DOMAIN post
          /\ post[OidOf(p)].likes = doc[p].likes)
         => (/\ post'[OidOf(p)].likes = doc[p].likes + 1
             /\ resp'[p] = LikeOk(p, doc[p].likes + 1))]_vars

\* a like of the post created with likes 1, sent with the upper-case id,
\* has returned 2 and the store holds 2
C1_Witness ==
    \E p \in Clients :
        /\ pc[p] = "idle" /\ req[p] = <<"A">>
        /\ OidOf(p) \in DOMAIN post
        /\ initLikes[OidOf(p)] = 1 /\ liked[OidOf(p)] = 1
        /\ resp[p] = LikeOk(p, 2)
        /\ post[OidOf(p)].likes = 2

\* C2: the stored likes of a post never goes down from one state to the
\* next, whatever the interleaving of the like requests.
C2_LikesNeverDecrease ==
    [][\A o \in DOMAIN post : post'[o].likes >= post[o].likes]_vars

\* C3: a like that read N and writes after another like of the same post
\* has already stored and returned N+1 leaves the stored likes at N+1 and
\* returns N+1 as well: one of the two updates is lost.
C3_LostUpdate ==
    [][\A p \in Clients, q \in Clients :
         (/\ p # q
          /\ pc[p] = "write" /\ pc'[p] = "idle"
          /\ pc[q] = "idle" /\ WellFormed(req[q]) /\ OidOf(q) = OidOf(p)
          /\ OidOf(p) \in DOMAIN post
          /\ resp[q] = LikeOk(q, doc[p].likes + 1)
          /\ post[OidOf(p)].likes = doc[p].likes + 1)
         => (/\ post'[OidOf(p)].likes = doc[p].likes + 1
             /\ resp'[p] = LikeOk(p, doc[p].likes + 1)
             /\ resp'[q] = resp[q])]_vars

\* two likes of one post have both completed, both returned N+1, and the
\* store holds N+1 although two likes were counted
C3_Witness ==
    \E p \in Clients, q \in Clients :
        /\ p # q /\ pc[p] = "idle" /\ pc[q] = "idle"
        /\ WellFormed(req[p]) /\ WellFormed(req[q]) /\ OidOf(p) = OidOf(q)
        /\ OidOf(p) \in DOMAIN post
        /\ liked[OidOf(p)] = 2
        /\ resp[p] = LikeOk(p, initLikes[OidOf(p)] + 1)
        /\ resp[q] = LikeOk(q, initLikes[OidOf(p)] + 1)
        /\ post[OidOf(p)].likes = initLikes[OidOf(p)] + 1

\* C4: with the store connected, a like whose well-formed id has no
\* document when it is looked up ends with 404 and writes nothing: the
\* whole post collection is unchanged.
C4_NotFoundNoWrite ==
    [][\A p \in Clients :
         (/\ pc[p] = "read" /\ pc'[p] # "read"
          /\ OidOf(p) \notin DOMAIN post)
         => (/\ resp'[p] = HTTPException(404, "Post not found")
             /\ pc'[p] = "idle"
             /\ post' = post)]_vars

\* a like of a missing post answered 404 while another post is stored
C4_Witness ==
    \E p \in Clients :
        /\ pc[p] = "idle" /\ resp[p].status = 404
        /\ WellFormed(req[p]) /\ OidOf(p) \notin DOMAIN post
        /\ DOMAIN post # {}

\* C5: a like whose id is not well formed is answered 400 in every state,
\* the store being connected or not, never 404 or 500.
C5_MalformedAlways400 ==
    \A p \in Clients :
        (pc[p] = "idle" /\ resp[p] # NoResp /\ ~WellFormed(req[p]))
        => resp[p].status = 400

\* C10: the stored likes is never negative nor below the value the post
\* was created with, and once k >= 1 likes of a post have completed it
\* lies between N+1 and N+k.
C10_LikesBounds ==
    \A o \in DOMAIN post :
        /\ post[o].likes >= 0
        /\ post[o].likes >= initLikes[o]
        /\ liked[o] >= 1 =>
              /\ post[o].likes >= initLikes[o] + 1
              /\ post[o].likes <= initLikes[o] + liked[o]

\* three likes completed and the store holds N+2: strictly inside the range
C10_Witness ==
    \E o \in DOMAIN post :
        /\ liked[o] = 3
        /\ post[o].likes = initLikes[o] + 2
        /\ \A p \in Clients : pc[p] = "idle"

\* ------------------------------------------------------- orders: properties

\* the order the last POST /orders stored
LastOrder == orders[Len(orders)]

\* the quantity a supplied line counts with: the JSON number cut to its
\* integer part, 1 when the line has none
LineQuantity(l) ==
    IF "quantity" \in DOMAIN l
    THEN CHOOSE n \in -4..4 :
           IF l.quantity >= 0 THEN 2 * n <= l.quantity /\ l.quantity < 2 * n + 2
           ELSE 2 * n >= l.quantity /\ l.quantity > 2 * n - 2
    ELSE 1

\* the caller-supplied price of a line in eighths, 0 when the line has none
LinePrice(l) == IF "price" \in DOMAIN l THEN l.price ELSE 0

\* sum over lines 1..n of quantity x price, in eighths
RECURSIVE SumOfLines(_, _)
SumOfLines(ls, n) ==
    IF n = 0 THEN 0
    ELSE SumOfLines(ls, n - 1) + LineQuantity(ls[n]) * LinePrice(ls[n])

\* c hundredths is e eighths rounded to 2 decimal places: within half a
\* hundredth of it
IsRounded2(c, e) == 8 * c - 100 * e <= 4 /\ 100 * e - 8 * c <= 4

C7_RejectedNotClamped ==
    orderReq # None =>
        /\ ((\/ \E i \in 1..Len(orderReq.items) :
                   /\ "quantity" \in DOMAIN orderReq.items[i]
                   /\ orderReq.items[i].quantity < 2
             \/ SumOfLines(orderReq.items, Len(orderReq.items)) < 0)
            => (orderResp.status >= 400 /\ orders = ordersBefore))
        /\ \/ orders = ordersBefore /\ orderResp.status >= 400
           \/ /\ Len(orders) = Len(ordersBefore) + 1
              /\ SubSeq(orders, 1, Len(ordersBefore)) = ordersBefore
              /\ orderResp.status = 200

\* a two-line order with one quantity 0 was refused while the collection
\* held an earlier order, which is still the only one
C7_Witness ==
    /\ orderReq # None /\ orderResp.status = 500
    /\ Len(orderReq.items) = 2
    /\ orderReq.items[1] = [item_id |-> "a", quantity |-> 4, price |-> 3]
    /\ "quantity" \in DOMAIN orderReq.items[2] /\ orderReq.items[2].quantity = 0
    /\ "item_id" \in DOMAIN orderReq.items[2]
    /\ db # None
    /\ Len(orders) = 1 /\ orders = ordersBefore

\* ------------------------------------------------------- artworks: properties

ShowcaseKeys ==
    {"id", "title", "artist_id", "images", "price", "currency",
     "is_available", "medium", "year"}

\* the image URLs a stored document holds, none when it has no images field
ImagesOf(d) == IF "images" \in DOMAIN d THEN d.images.list ELSE <<>>

\* the value a card shows for field k of d: the stored value, else dflt
Shown(d, k, dflt) == IF k \in DOMAIN d THEN d[k] ELSE dflt

\* C8: with the store connected the list answers 200 with one card per
\* document the store returned, in the store's order; a card's images are
\* the first min(3, n) of the document's n, in order; a card has the nine
\* showcase fields only (no description, dimensions, location); a missing
\* field shows as None, or as "USD" / True for currency / is_available.
C8_ShowcaseProjection ==
    (artReq # None /\ db # None) =>
        /\ artResp.status = 200
        /\ Len(artResp.items) = Len(artFound)
        /\ \A i \in 1..Len(artFound) :
             LET card == artResp.items[i]
                 d == artFound[i]
                 shown == card.images.list
             IN /\ DOMAIN card = ShowcaseKeys
                /\ card.id = Str(OidStr(d._id))
                /\ Len(shown) = Min(3, Len(ImagesOf(d)))
                /\ \A j \in 1..Len(shown) : shown[j] = ImagesOf(d)[j]
                /\ \A k \in {"title", "artist_id", "price", "medium", "year"} :
                     card[k] = Shown(d, k, None)
                /\ card.currency = Shown(d, "currency", Str("USD"))
                /\ card.is_available = Shown(d, "is_available", Bool(TRUE))

\* a list of two cards: an artwork with 4 images shown with its first 3,
\* then the title-only record shown with None fields and the defaults
C8_Witness ==
    /\ artReq # None /\ artResp.status = 200
    /\ Len(artFound) = 2 /\ Len(artResp.items) = 2
    /\ Len(ImagesOf(artFound[1])) = 4
    /\ artResp.items[1].images = List(ImageUrls(3))
    /\ artResp.items[1].id = Str(<<"a">>)
    /\ DOMAIN artFound[2] = {"_id", "title"}
    /\ artResp.items[2].id = Str(<<"b">>)
    /\ artResp.items[2].medium = None
    /\ artResp.items[2].images = List(<<>>)
    /\ artResp.items[2].currency = Str("USD")

\* q occurs in text as a substring, letters compared in lower case
ContainsIgnoreCase(q, text) ==
    \E off \in 0..(Len(text) - Len(q)) :
        \A j \in 1..Len(q) : Lower(q[j]) = Lower(text[off + j])

\* d has q as a substring of its title, description or medium
SubstringHit(d, q) ==
    \E k \in {"title", "description", "medium"} :
        /\ k \in DOMAIN d
        /\ "str" \in DOMAIN d[k]
        /\ ContainsIgnoreCase(q, d[k].str)

RECURSIVE SubstringSelect(_, _, _)
SubstringSelect(coll, q, n) ==
    IF n = 0 THEN <<>>
    ELSE IF q = None \/ SubstringHit(coll[n], q.str)
         THEN Append(SubstringSelect(coll, q, n - 1), coll[n])
         ELSE SubstringSelect(coll, q, n - 1)

\* C9: the list selects exactly the documents whose title, description or
\* medium contains q as a case-insensitive substring (the first limit of
\* them), and every document when q is absent.
C9_SubstringSearch ==
    (artReq # None /\ db # None) =>
        artFound = Take(SubstringSelect(artwork, artReq.q, Len(artwork)),
                        artReq.limit)

====
